---- MODULE Spec2Model ----
(***************************************************************************)
(* A model of src/main.py: the on-call roster script.  The script declares *)
(* a binary program (one 0/1 variable per Person and Date, three families  *)
(* of linear constraints, a variance objective), hands it to the solver    *)
(* with an improvement callback, swallows a KeyboardInterrupt, and writes  *)
(* the timetable.                                                          *)
(*                                                                         *)
(* Persons are 1..n in roster order, Dates are 1..D in calendar order.     *)
(* The solver is the library the script calls on line 77; it is modelled   *)
(* by what the script relies on: it hands the callback solutions of the    *)
(* declared constraints, and on normal return loads a minimiser of the     *)
(* declared objective into model.shifts.                                   *)
(***************************************************************************)
EXTENDS Integers, Sequences, FiniteSets, TLC

\* Bounds of the model (the script's parameters, lines 7-16, are inputs).
MaxPersons == 4
MaxDays == 4
MaxLeave == 2

\* Line 32: pd.date_range(date, date + DateOffset(days=2)) is W = 3 dates.
W == 3

\* Line 59: known_best_objective_value = None.
None == <<>>
\* Line 22: a Var that was never given a value has .value None.
NoValue == -1
\* No model is bound to the callback's parameter outside the callback.
NoModel == <<>>

VARIABLES
    persons,    \* line 7: the roster, 1..n
    dates,      \* line 8: the horizon, 1..D
    AL,         \* lines 11-16: Person -> set of leave Dates
    shifts,     \* line 22: model.shifts[person][date], 0, 1 or NoValue
    known_best_objective_value,  \* line 59
    cand,       \* the callback's parameter _model (its shifts), line 61
    key,        \* position of the loop of lines 71-72 in model.shifts' keys
    printed,    \* objective values printed by lines 66 and 68, in order
    pc,         \* the line the script is at
    interrupted,\* whether the except clause of line 78 was taken
    feasible,   \* the solver's view of the constraints declared on lines 22-44
    output      \* the Call column written by set_up_timetable, Date -> names

vars == <<persons, dates, AL, shifts, known_best_objective_value, cand, key,
          printed, pc, interrupted, feasible, output>>

----------------------------------------------------------------------------
\* Arithmetic helpers.

RECURSIVE SumOver(_, _)
SumOver(S, f) ==
    IF S = {} THEN 0
    ELSE LET e == CHOOSE e \in S : TRUE IN f[e] + SumOver(S \ {e}, f)

\* Python floats hold these small rationals; a value is <<numerator, denominator>>
\* with a positive denominator, compared by cross-multiplication.
Less(a, b) == a[1] * b[2] < b[1] * a[2]

RECURSIVE SubsetsUpTo(_, _)
SubsetsUpTo(S, k) ==
    IF k = 0 THEN {{}}
    ELSE LET T == SubsetsUpTo(S, k - 1) IN T \cup {t \cup {e} : t \in T, e \in S}

----------------------------------------------------------------------------
\* The declared model, lines 22-54.

Keys == persons \X dates

\* KeyAt with the loop one key behind: the last key is never copied.
KeyAt_one_behind(i) ==
    LET j == IF i = 1 THEN 1 ELSE i - 1 IN
    <<((j - 1) \div Cardinality(dates)) + 1, ((j - 1) % Cardinality(dates)) + 1>>

\* model.shifts iterates its keys in the order persons x dates.
KeyAt(i) == <<((i - 1) \div Cardinality(dates)) + 1, ((i - 1) % Cardinality(dates)) + 1>>

rule_1(x, date) ==
    SumOver(persons, [person \in persons |-> x[person][date]]) = 1

\* rule_2 with DateOffset(days=1): a window one Date short.
rule_2_short_window(x, person, date) ==
    LET date_list == date .. (date + (W - 2)) IN
    IF \A d \in date_list : d \in dates
    THEN SumOver(date_list, [d \in date_list |-> x[person][d]]) <= 1
    ELSE TRUE

rule_2(x, person, date) ==
    LET date_list == date .. (date + (W - 1)) IN
    IF \A d \in date_list : d \in dates
    THEN SumOver(date_list, [d \in date_list |-> x[person][d]]) <= 1
    ELSE TRUE

\* rule_3 with <= 1 for == 0: one call on a leave Date is let through.
rule_3_allows_one(x, person) ==
    SumOver(AL[person], [date \in AL[person] |-> x[person][date]]) <= 1

rule_3(x, person) ==
    SumOver(AL[person], [date \in AL[person] |-> x[person][date]]) = 0

shift_counts(x) ==
    [person \in persons |-> SumOver(dates, [date \in dates |-> x[person][date]])]

mean_num_shifts(x) ==
    <<SumOver(persons, shift_counts(x)), Cardinality(persons)>>

\* The objective without the square: sum of (i - mean) over len - 1.
standard_deviation_unsquared(x) ==
    LET c == shift_counts(x)
        m == mean_num_shifts(x)
    IN  <<SumOver(persons, [p \in persons |-> c[p] * m[2] - m[1]]),
          m[2] * (Cardinality(persons) - 1)>>

\* The objective divided by len instead of len - 1.
standard_deviation_population(x) ==
    LET c == shift_counts(x)
        m == mean_num_shifts(x)
    IN  <<SumOver(persons, [p \in persons |->
                (c[p] * m[2] - m[1]) * (c[p] * m[2] - m[1])]),
          m[2] * m[2] * Cardinality(persons)>>

standard_deviation_of_shift_counts(x) ==
    LET c == shift_counts(x)
        m == mean_num_shifts(x)
    IN  <<SumOver(persons, [p \in persons |->
                (c[p] * m[2] - m[1]) * (c[p] * m[2] - m[1])]),
          m[2] * m[2] * (Cardinality(persons) - 1)>>

\* value(_model.objective)
objective(x) == standard_deviation_of_shift_counts(x)

\* The solutions of the declared constraints.  The columns (one value per
\* Person) that satisfy rule_1 are combined Date by Date, then rule_2 and
\* rule_3 are applied.
Columns(date) ==
    {c \in [persons -> {0, 1}] : rule_1([person \in persons |-> [d \in dates |-> c[person]]], date)}

Feasible ==
    LET xs == {[person \in persons |-> [date \in dates |-> f[date][person]]] :
                  f \in {g \in [dates -> UNION {Columns(d) : d \in dates}] :
                             \A d \in dates : g[d] \in Columns(d)}}
    IN  {x \in xs : /\ \A person \in persons, date \in dates : rule_2(x, person, date)
                    /\ \A person \in persons : rule_3(x, person)}

\* The minimisers of the declared objective (line 54: minimize is the default sense).
Optimal ==
    LET vals == {objective(x) : x \in feasible}
        best == CHOOSE v \in vals : \A w \in vals : ~Less(w, v)
    IN  {x \in feasible : ~Less(best, objective(x))}

----------------------------------------------------------------------------
\* The script.

LeaveSets(n, D) ==
    {[p \in 1..n |-> {d \in 1..D : <<p, d>> \in E}] :
        E \in SubsetsUpTo((1..n) \X (1..D), MaxLeave)}

Init ==
    \E n \in 2..MaxPersons, D \in 1..MaxDays :
        /\ persons = 1..n
        /\ dates = 1..D
        /\ AL \in LeaveSets(n, D)
        /\ shifts = [person \in 1..n |-> [date \in 1..D |-> NoValue]]
        /\ known_best_objective_value = None
        /\ cand = NoModel
        /\ key = 0
        /\ printed = <<>>
        /\ pc = "line19"
        /\ interrupted = FALSE
        /\ feasible = {}
        /\ output = <<>>

\* Lines 19-54: the model is built; nothing inspects the leave set.
Construct ==
    /\ pc = "line19"
    /\ pc' = "line77"
    /\ feasible' = Feasible
    /\ UNCHANGED <<persons, dates, AL, shifts, known_best_objective_value, cand,
                   key, printed, interrupted, output>>

\* Line 77: the solver calls callback_function(_model) after a main solve.
CallAfterMainSolve ==
    /\ pc = "line77"
    /\ \E x \in feasible : cand' = x
    /\ pc' = "line63"
    /\ UNCHANGED <<persons, dates, AL, shifts, known_best_objective_value, key,
                   printed, interrupted, feasible, output>>

\* Line 63 with <= for <.
Improves_or_equals(v, best) == best = None \/ ~Less(best, v)

\* Line 63.
Improves(v, best) == best = None \/ Less(v, best)

\* Lines 63-68: the test, and the print of an improvement.
TestAndPrint ==
    /\ pc = "line63"
    /\ IF Improves(objective(cand), known_best_objective_value)
       THEN /\ printed' = Append(printed, objective(cand))
            /\ pc' = "line70"
            /\ UNCHANGED cand
       ELSE /\ pc' = "line77"
            /\ cand' = NoModel
            /\ UNCHANGED printed
    /\ UNCHANGED <<persons, dates, AL, shifts, known_best_objective_value, key,
                   interrupted, feasible, output>>

\* Line 70.
StoreObjective ==
    /\ pc = "line70"
    /\ known_best_objective_value' = objective(cand)
    /\ key' = 1
    /\ pc' = "line72"
    /\ UNCHANGED <<persons, dates, AL, shifts, cand, printed, interrupted, feasible,
                   output>>

\* Lines 71-72: one iteration of the copy loop; the callback returns after the last.
CopyKey ==
    /\ pc = "line72"
    /\ shifts' = [shifts EXCEPT ![KeyAt(key)[1]][KeyAt(key)[2]] = cand[KeyAt(key)[1]][KeyAt(key)[2]]]
    /\ IF key = Cardinality(Keys)
       THEN /\ pc' = "line77"
            /\ key' = 0
            /\ cand' = NoModel
       ELSE /\ key' = key + 1
            /\ UNCHANGED <<pc, cand>>
    /\ UNCHANGED <<persons, dates, AL, known_best_objective_value, printed,
                   interrupted, feasible, output>>

\* Line 77 returns: the solver loads its best solution, if it has one.
SolveReturns ==
    /\ pc = "line77"
    /\ IF feasible = {} THEN UNCHANGED shifts ELSE shifts' \in Optimal
    /\ pc' = "line84"
    /\ UNCHANGED <<persons, dates, AL, known_best_objective_value, cand, key,
                   printed, interrupted, feasible, output>>

\* Lines 78-79: a KeyboardInterrupt, raised between any two steps of the solve
\* (the callback runs in the main thread), is swallowed.
KeyboardInterrupt ==
    /\ pc \in {"line77", "line63", "line70", "line72"}
    /\ interrupted' = TRUE
    /\ pc' = "line84"
    /\ cand' = NoModel
    /\ key' = 0
    /\ UNCHANGED <<persons, dates, AL, shifts, known_best_objective_value, printed,
                   feasible, output>>

\* Line 91: the Persons, in roster order, whose variable has the value 1.
RECURSIVE persons_assigned_on_date(_, _)
persons_assigned_on_date(date, n) ==
    IF n = 0 THEN <<>>
    ELSE LET rest == persons_assigned_on_date(date, n - 1) IN
         IF shifts[n][date] = 1 THEN Append(rest, n) ELSE rest

\* Lines 84-105.
set_up_timetable ==
    /\ pc = "line84"
    /\ output' = [date \in dates |-> persons_assigned_on_date(date, Cardinality(persons))]
    /\ pc' = "done"
    /\ UNCHANGED <<persons, dates, AL, shifts, known_best_objective_value, cand,
                   key, printed, interrupted, feasible>>

Next ==
    \/ Construct
    \/ CallAfterMainSolve
    \/ TestAndPrint
    \/ StoreObjective
    \/ CopyKey
    \/ SolveReturns
    \/ KeyboardInterrupt
    \/ set_up_timetable

Spec == Init /\ [][Next]_vars

----------------------------------------------------------------------------
\* The vocabulary of the properties (spec sections 3 and 8), stated on a
\* matrix of values without reference to the declared constraints.

Same(a, b) == a[1] * b[2] = b[1] * a[2]

InCallback == pc \in {"line63", "line70", "line72"}
Finished == pc \in {"line84", "done"} /\ ~interrupted
Blank == [person \in persons |-> [date \in dates |-> NoValue]]

AssignedOn(x, date) == {person \in persons : x[person][date] = 1}
ShiftCount(x, person) == Cardinality({date \in dates : x[person][date] = 1})

Coverage(x) == \A date \in dates : Cardinality(AssignedOn(x, date)) = 1
LeaveExclusion(x) == \A person \in persons : \A date \in AL[person] : x[person][date] # 1
Cooldown(x) ==
    \A person \in persons, first \in dates :
        (first + W - 1) \in dates =>
            Cardinality({date \in first .. (first + W - 1) : x[person][date] = 1}) <= 1
Valid(x) == Cooldown(x) /\ LeaveExclusion(x) /\ Coverage(x)

\* Sum over Persons of (ShiftCount - D/n)^2, divided by n - 1.
SampleVariance(x) ==
    LET n == Cardinality(persons)
        D == Cardinality(dates)
    IN  <<SumOver(persons, [p \in persons |->
                (n * ShiftCount(x, p) - D) * (n * ShiftCount(x, p) - D)]),
          n * n * (n - 1)>>

\* The complete assignments Date -> Person, as matrices, that are valid.
MatrixOf(a) == [person \in persons |-> [date \in dates |-> IF a[date] = person THEN 1 ELSE 0]]
ValidAssignments == {x \in {MatrixOf(a) : a \in [dates -> persons]} : Valid(x)}

NoCall == [date \in dates |-> <<>>]

\* C1: when the solve returns with a solution, the timetable written out names
\* exactly one Person on every Date, and that Person is not on leave that Date.
C1_OutputCoversEveryDate ==
    (pc = "done" /\ ~interrupted /\ feasible # {}) =>
        \A date \in dates :
            /\ Len(output[date]) = 1
            /\ date \notin AL[output[date][1]]

C1_Witness ==
    /\ pc = "done" /\ ~interrupted /\ feasible # {}
    /\ Cardinality(dates) >= W
    /\ \E person \in persons : AL[person] # {}

\* C2: every assignment the solver hands over (to the callback, or loaded on
\* return) has each Person at most once in every window of W consecutive Dates
\* inside the horizon.
C2_CooldownInWindows ==
    /\ InCallback => Cooldown(cand)
    /\ (Finished /\ feasible # {}) => Cooldown(shifts)

C2_Witness ==
    /\ InCallback
    /\ Cardinality(dates) > W
    /\ \E person \in persons : ShiftCount(cand, person) = 2

C5_CancelledResultIsWhole ==
    (pc = "done" /\ interrupted) =>
        \/ shifts = Blank
        \/ /\ Valid(shifts)
           /\ known_best_objective_value # None
           /\ Same(known_best_objective_value, SampleVariance(shifts))

\* C6: the printed objective values are strictly decreasing, and the stored best
\* objective follows them: it is the last value printed, or, between the print
\* of line 66/68 and the store of line 70, the one printed before it.
C6_NotificationsStrictlyDecrease ==
    /\ \A i, j \in 1..Len(printed) : i < j => Less(printed[j], printed[i])
    /\ known_best_objective_value = None => Len(printed) <= 1
    /\ known_best_objective_value # None =>
          \E i \in 1..Len(printed) :
              i >= Len(printed) - 1 /\ known_best_objective_value = printed[i]
    /\ (pc \in {"line77", "line63", "line72"} /\ printed # <<>>) =>
          known_best_objective_value = printed[Len(printed)]

C6_Witness ==
    /\ Len(printed) >= 2
    /\ pc = "line70"

\* C7: a candidate is printed once and replaces the incumbent exactly when no
\* incumbent is stored or its objective is strictly lower; otherwise the stored
\* objective and assignment are unchanged and nothing is printed.
C7_ReplaceIffStrictlyLower ==
    [][ LET v == SampleVariance(cand)
            better == \/ known_best_objective_value = None
                      \/ Less(v, known_best_objective_value)
        IN
        /\ (pc = "line63" /\ ~interrupted') =>
              IF better
              THEN /\ Len(printed') = Len(printed) + 1
                   /\ SubSeq(printed', 1, Len(printed)) = printed
                   /\ Same(printed'[Len(printed')], v)
                   /\ pc' = "line70"
              ELSE /\ pc' = "line77"
                   /\ UNCHANGED <<printed, known_best_objective_value, shifts>>
        /\ (pc = "line72" /\ pc' = "line77") =>
              /\ shifts' = cand
              /\ Same(known_best_objective_value', v)
              /\ Same(printed'[Len(printed')], v)
        /\ printed' # printed => (pc = "line63" /\ better)
        /\ known_best_objective_value' # known_best_objective_value => pc = "line70"
        /\ shifts' # shifts => (pc = "line72" \/ (pc = "line77" /\ pc' = "line84"))
      ]_vars

C7_Witness ==
    /\ pc = "line77"
    /\ Len(printed) = 2
    /\ Valid(shifts)
    /\ Cardinality(dates) > W

\* C8 (as claimed): when some Date has every Person on leave, the run stops
\* before the search: the solve never returns and no timetable is written.
C8_AllOnLeaveStopsBeforeSearch ==
    (\E date \in dates : \A person \in persons : date \in AL[person]) =>
        ~(pc = "done" /\ ~interrupted)

\* C9 (as claimed): the result of a run cancelled before anything was reported
\* differs from the result of a run that exhausted an infeasible search (a
\* timetable naming nobody and no stored objective).
C9_CancelledDiffersFromInfeasible ==
    (pc = "done" /\ interrupted /\ printed = <<>>) =>
        <<output, known_best_objective_value>> # <<NoCall, None>>

\* C10 (as claimed): in every assignment the solver hands over, no Person is
\* assigned on two distinct Dates fewer than W days apart, whatever the horizon.
C10_NoTwoCallsWithinW ==
    LET Apart(x) ==
            \A person \in persons, d1 \in dates, d2 \in dates :
                (d1 < d2 /\ d2 - d1 < W) => ~(x[person][d1] = 1 /\ x[person][d2] = 1)
    IN  /\ InCallback => Apart(cand)
        /\ (Finished /\ feasible # {}) => Apart(shifts)

====
